---------------------------- MODULE Spec2Model ----------------------------
(***************************************************************************)
(* SDP security descriptions (RFC 4568) as negotiated by                   *)
(* channels/sip/sdp_crypto.c: one crypto context, the SRTP engine behind   *)
(* res_srtp / res_srtp_policy, and the RTP instance the policies are       *)
(* installed on.                                                           *)
(*                                                                         *)
(* Text is a sequence of symbols.  A symbol is a string holding either one *)
(* of the characters the parser splits on (":" " " ";" "|"), one single    *)
(* character (key text, lifetimes, tags), or a run of characters that      *)
(* holds none of the separators ("inline", a suite name).  strsep, strchr  *)
(* and strcmp are then what they are in C.  A NULL char pointer is the     *)
(* one-symbol text NULL, whose symbol occurs in no input.                  *)
(*                                                                         *)
(* Heap allocation of the C library (ast_calloc, ast_strdup, ast_asprintf) *)
(* is taken to succeed; the failures of the SRTP engine and of the RTP     *)
(* instance are inputs of the actions.                                     *)
(***************************************************************************)
EXTENDS Integers, Sequences, FiniteSets, TLC

VARIABLES registered, codec, live, p, rtp, handles, crashed, last

vars == <<registered, codec, live, p, rtp, handles, crashed, last>>

-----------------------------------------------------------------------------
(* Program constants *)

SRTP_MASTER_LEN == 30
SRTP_MASTERKEY_LEN == 16
SRTP_MASTERSALT_LEN == SRTP_MASTER_LEN - SRTP_MASTERKEY_LEN
SRTP_MASTER_LEN64 == ((SRTP_MASTER_LEN * 8 + 5) \div 6) + 1

(* Bounds of the model *)

\* remote keys 0..NumKeys may be sent by the peer; key 0 is the all-zero key
NumKeys == 2

-----------------------------------------------------------------------------
(* C strings *)

NULL == <<"(null)">>

Min(S) == CHOOSE x \in S : \A y \in S : x <= y

\* strsep(&s, delims): <<token, what s points at afterwards>>
strsep(s, delims) ==
    IF s = NULL THEN <<NULL, NULL>>
    ELSE LET I == {i \in 1..Len(s) : s[i] \in delims}
         IN  IF I = {} THEN <<s, NULL>>
             ELSE <<SubSeq(s, 1, Min(I) - 1), SubSeq(s, Min(I) + 1, Len(s))>>

\* strchr(s, c) != NULL, for a non-NULL s
strchr(s, c) == \E i \in 1..Len(s) : s[i] = c

Digits == <<"0", "1", "2", "3", "4", "5", "6", "7", "8", "9">>

IsDigit(c) == \E d \in 1..10 : Digits[d] = c

DigitVal(c) == (CHOOSE d \in 1..10 : Digits[d] = c) - 1

RECURSIVE atoi_from(_, _, _)
atoi_from(s, i, acc) ==
    IF i > Len(s) \/ ~IsDigit(s[i]) THEN acc
    ELSE atoi_from(s, i + 1, acc * 10 + DigitVal(s[i]))

\* atoi(s) of an unsigned decimal text: the leading digits, 0 when there are none
atoi(s) == atoi_from(s, 1, 0)

RECURSIVE BitXor(_, _)
BitXor(a, b) ==
    IF a = 0 THEN b
    ELSE IF b = 0 THEN a
    ELSE ((a + b) % 2) + 2 * BitXor(a \div 2, b \div 2)

-----------------------------------------------------------------------------
(* Base64 (ast_base64encode / ast_base64decode) *)

B64Chars ==
    << "A", "B", "C", "D", "E", "F", "G", "H", "I", "J", "K", "L", "M",
       "N", "O", "P", "Q", "R", "S", "T", "U", "V", "W", "X", "Y", "Z",
       "a", "b", "c", "d", "e", "f", "g", "h", "i", "j", "k", "l", "m",
       "n", "o", "p", "q", "r", "s", "t", "u", "v", "w", "x", "y", "z",
       "0", "1", "2", "3", "4", "5", "6", "7", "8", "9", "+", "/" >>

\* The codec linked into the build: "rfc4648" is the codec of section 4.2; the
\* others are codecs that break its round-trip law: "urlsafe" writes "-" and "_"
\* for the sextets 62 and 63, which the decoder does not read, and "tight"
\* keeps one more character of the destination free.
Codecs == {"rfc4648", "urlsafe", "tight"}

\* the character the encoder writes for a sextet
B64Char(cdc, v) ==
    IF cdc = "urlsafe" /\ v = 62 THEN "-"
    ELSE IF cdc = "urlsafe" /\ v = 63 THEN "_"
    ELSE B64Chars[v + 1]

\* the sextet the decoder reads for a character; a character that is not of
\* the alphabet reads as 63
B64Val(c) ==
    IF \E i \in 1..64 : B64Chars[i] = c
    THEN (CHOOSE i \in 1..64 : B64Chars[i] = c) - 1
    ELSE 63

RECURSIVE B64EncodeFrom(_, _, _)
B64EncodeFrom(cdc, src, i) ==
    LET n == Len(src) - i + 1
        b1 == src[i]
        b2 == IF n >= 2 THEN src[i + 1] ELSE 0
        b3 == IF n >= 3 THEN src[i + 2] ELSE 0
        w == b1 * 65536 + b2 * 256 + b3
    IN  IF n <= 0 THEN <<>>
        ELSE << B64Char(cdc, w \div 262144),
                B64Char(cdc, (w \div 4096) % 64),
                IF n >= 2 THEN B64Char(cdc, (w \div 64) % 64) ELSE "=",
                IF n >= 3 THEN B64Char(cdc, w % 64) ELSE "=" >>
             \o B64EncodeFrom(cdc, src, i + 3)

\* ast_base64encode(dst, src, srclen, max): the text written to dst, which
\* holds at most max - 1 characters before its terminator
ast_base64encode(cdc, src, max) ==
    LET full == B64EncodeFrom(cdc, src, 1)
        room == IF cdc = "tight" THEN max - 2 ELSE max - 1
    IN  IF Len(full) <= room THEN full ELSE SubSeq(full, 1, room)

RECURSIVE B64DecodeFrom(_, _, _, _)
B64DecodeFrom(src, i, byte, bits) ==
    IF i > Len(src) \/ src[i] = "=" THEN <<>>
    ELSE LET b == (byte * 64 + B64Val(src[i])) % 4096
             n == bits + 6
         IN  IF n >= 8
             THEN <<(b \div (2 ^ (n - 8))) % 256>> \o B64DecodeFrom(src, i + 1, b, n - 8)
             ELSE B64DecodeFrom(src, i + 1, b, n)

\* ast_base64decode(dst, src, max): the bytes the text decodes to; the value
\* returned to the caller is their number
ast_base64decode(src) == B64DecodeFrom(src, 1, 0, 0)

-----------------------------------------------------------------------------
(* Keys *)

ZeroKey == [i \in 1..SRTP_MASTER_LEN |-> 0]

\* the remote keys of the inputs; Key(0) is the all-zero key
Key(n) == [i \in 1..SRTP_MASTER_LEN |-> (n * (i + 6)) % 256]

RemoteKeys == {Key(n) : n \in 0..NumKeys}

\* what get_random may fill local_key with; the text of both holds sextet 62
RandomKeys ==
    { [i \in 1..SRTP_MASTER_LEN |-> (11 * i + 240) % 256],
      [i \in 1..SRTP_MASTER_LEN |-> (247 + i) % 256] }

-----------------------------------------------------------------------------
(* struct sdp_crypto *)

\* sdp_crypto_alloc: the zeroed structure
sdp_crypto_alloc ==
    [ a_crypto    |-> NULL,
      local_key   |-> ZeroKey,
      tag         |-> NULL,
      local_key64 |-> <<>>,
      remote_key  |-> ZeroKey,
      suite       |-> <<>> ]

\* SelfTestOK without the memcmp of the decoded bytes
SelfTestLengthOnly(remote_key, local_key) == Len(remote_key) = SRTP_MASTER_LEN

\* the encode/decode self test of sdp_crypto_setup
SelfTestOK(remote_key, local_key) ==
    /\ Len(remote_key) = SRTP_MASTER_LEN
    /\ remote_key = local_key

\* the context is returned when its key text decodes to its key
SelfTest(q) ==
    IF ~SelfTestOK(ast_base64decode(q.local_key64), q.local_key)
    THEN [ok |-> FALSE, err |-> "SelfTestFailure", p |-> sdp_crypto_alloc]
    ELSE [ok |-> TRUE, err |-> "none", p |-> q]

\* sdp_crypto_setup(): rnd is what get_random did, cdc the codec linked in
sdp_crypto_setup(reg, rnd, cdc) ==
    IF ~reg THEN [ok |-> FALSE, err |-> "EngineUnavailable", p |-> sdp_crypto_alloc]
    ELSE IF rnd.res < 0
    THEN [ok |-> FALSE, err |-> "RandomSourceFailure", p |-> sdp_crypto_alloc]
    ELSE SelfTest([sdp_crypto_alloc EXCEPT
                       !.local_key = rnd.key,
                       !.local_key64 = ast_base64encode(cdc, rnd.key, SRTP_MASTER_LEN64)])

-----------------------------------------------------------------------------
(* The offer line *)

SUITE_80 == <<"AES_CM_128_HMAC_SHA1_80">>
SUITE_32 == <<"AES_CM_128_HMAC_SHA1_32">>

\* CryptoLine without the line end
CryptoLineNoCRLF(tag, suite, key64) ==
    <<"a=crypto", ":">> \o tag \o <<" ">> \o suite \o <<" ", "inline", ":">> \o key64

\* "a=crypto:%s %s inline:%s\r\n"
CryptoLine(tag, suite, key64) ==
    <<"a=crypto", ":">> \o tag \o <<" ">> \o suite \o <<" ", "inline", ":">>
        \o key64 \o <<"\r\n">>

\* the suite sdp_crypto_offer writes the line with
OfferSuite(suite) == IF suite = <<>> THEN SUITE_80 ELSE suite

\* sdp_crypto_offer that writes the line before it fills in the default suite
sdp_crypto_offer_line_first(q) ==
    [ ret |-> 0,
      p   |-> [q EXCEPT !.suite = OfferSuite(q.suite),
                        !.a_crypto =
                            CryptoLine(IF q.tag # NULL THEN q.tag ELSE <<"1">>,
                                       q.suite, q.local_key64)] ]

\* sdp_crypto_offer(p)
sdp_crypto_offer(q) ==
    LET q1 == [q EXCEPT !.suite = OfferSuite(q.suite)]
    IN  [ ret |-> 0,
          p   |-> [q1 EXCEPT !.a_crypto =
                      CryptoLine(IF q1.tag # NULL THEN q1.tag ELSE <<"1">>,
                                 q1.suite, q1.local_key64)] ]

\* sdp_crypto_attrib(p)
sdp_crypto_attrib(q) == q.a_crypto

-----------------------------------------------------------------------------
(* Policy activation *)

\* what res_srtp_policy->alloc() hands out
NoPolicy == [key |-> <<>>, salt |-> <<>>, suite |-> "0", ssrc |-> "0", inbound |-> 0]

\* the call into the engine or the RTP instance that fails, if any
EngineOutcomes ==
    { "ok", "alloc_local", "alloc_remote", "get_stats", "local_master_key",
      "local_suite", "remote_master_key", "remote_suite", "add_policy" }

\* set_crypto_policy(policy, suite_val, master_key, ssrc, inbound)
set_crypto_policy(policy, suite_val, master_key, ssrc, inbound, reg, key_fails, suite_fails) ==
    IF ~reg THEN [res |-> -1, policy |-> policy]
    ELSE IF key_fails THEN [res |-> -1, policy |-> policy]
    ELSE LET keyed == [policy EXCEPT
                          !.key = SubSeq(master_key, 1, SRTP_MASTERKEY_LEN),
                          !.salt = SubSeq(master_key, SRTP_MASTERKEY_LEN + 1,
                                          SRTP_MASTERKEY_LEN + SRTP_MASTERSALT_LEN)]
         IN  IF suite_fails THEN [res |-> -1, policy |-> keyed]
             ELSE [res |-> 0,
                   policy |-> [keyed EXCEPT !.suite = suite_val, !.ssrc = ssrc,
                                            !.inbound = inbound]]

\* the policies a failed or skipped activation leaves on the RTP instance: none
NotActivated ==
    [ res |-> -1, local_alloc |-> 0, remote_alloc |-> 0, local_destroy |-> 0,
      remote_destroy |-> 0, installed |-> FALSE,
      remote_policy |-> NoPolicy, local_policy |-> NoPolicy ]

\* Activated with an err: label that destroys the local policy only
ActivatedRemoteKept(res, remote_alloc, lp, rp) ==
    [ res |-> res,
      local_alloc |-> 1,
      remote_alloc |-> remote_alloc,
      local_destroy |-> 1,
      remote_destroy |-> 0,
      installed |-> (res = 0),
      remote_policy |-> IF res = 0 THEN rp.policy ELSE NoPolicy,
      local_policy |-> IF res = 0 THEN lp.policy ELSE NoPolicy ]

\* the end of sdp_crypto_activate: both policies are destroyed when allocated
Activated(res, remote_alloc, lp, rp) ==
    [ res |-> res,
      local_alloc |-> 1,
      remote_alloc |-> remote_alloc,
      local_destroy |-> 1,
      remote_destroy |-> IF remote_alloc = 1 THEN 1 ELSE 0,
      installed |-> (res = 0),
      remote_policy |-> IF res = 0 THEN rp.policy ELSE NoPolicy,
      local_policy |-> IF res = 0 THEN lp.policy ELSE NoPolicy ]

\* the steps of sdp_crypto_activate after the first allocation
ActivateSteps(remote_alloc, lp, rp, eng) ==
    Activated(IF \/ remote_alloc = 0
                 \/ eng = "get_stats"
                 \/ lp.res < 0
                 \/ rp.res < 0
                 \/ eng = "add_policy"
              THEN -1 ELSE 0,
              remote_alloc, lp, rp)

\* sdp_crypto_activate(p, suite_val, remote_key, rtp)
sdp_crypto_activate(q, suite_val, remote_key, reg, eng) ==
    IF ~reg THEN NotActivated
    ELSE IF eng = "alloc_local" THEN NotActivated
    ELSE ActivateSteps(
             IF eng = "alloc_remote" THEN 0 ELSE 1,
             set_crypto_policy(NoPolicy, suite_val, q.local_key, "local_ssrc", 0,
                               reg, eng = "local_master_key", eng = "local_suite"),
             set_crypto_policy(NoPolicy, suite_val, remote_key, "0", 1,
                               reg, eng = "remote_master_key", eng = "remote_suite"),
             eng)

-----------------------------------------------------------------------------
(* The attribute parser *)

\* the tokens of the attribute: what precedes the first ":" is dropped
ParseAttr(attr) ==
    LET s0 == strsep(attr, {":"})
        s1 == strsep(s0[2], {" "})
        s2 == strsep(s1[2], {" "})
        s3 == strsep(s2[2], {" "})
        s4 == strsep(s3[2], {" "})
    IN  [ tag |-> s1[1], suite |-> s2[1], key_params |-> s3[1],
          session_params |-> s4[1] ]

\* SuiteVal whose last branch takes every other name for the 32-bit-tag suite
SuiteValNoElse(suite) ==
    IF suite = SUITE_80 THEN "AST_AES_CM_128_HMAC_SHA1_80"
    ELSE "AST_AES_CM_128_HMAC_SHA1_32"

\* suite_val of a suite name, "0" when the name is not supported
SuiteVal(suite) ==
    IF suite = SUITE_80 THEN "AST_AES_CM_128_HMAC_SHA1_80"
    ELSE IF suite = SUITE_32 THEN "AST_AES_CM_128_HMAC_SHA1_32"
    ELSE "0"

\* key_salt, lifetime and mki of an inline key parameter, from what follows
\* the key and salt in its info: lt is the strsep of the second field;
\* null_deref when strchr is handed a NULL lifetime (there is no second field)
InlineFields(key_salt, lt, is_mki) ==
    [ inline |-> TRUE,
      key_salt |-> key_salt,
      null_deref |-> (lt[1] = NULL),
      lifetime |-> IF is_mki THEN NULL ELSE lt[1],
      mki |-> IF is_mki THEN lt[1] ELSE strsep(lt[2], {"|"})[1] ]

\* the second field is the MKI when it holds a ":"
IsMki(lifetime) == IF lifetime = NULL THEN FALSE ELSE strchr(lifetime, ":")

\* info is "key_salt|lifetime-or-mki|mki"; ks is the strsep of its first field
InlineInfo(ks, lt) == InlineFields(ks[1], lt, IsMki(lt[1]))

InlineParam(ks) == InlineInfo(ks, strsep(ks[2], {"|"}))

NotInline ==
    [ inline |-> FALSE, key_salt |-> NULL, null_deref |-> FALSE, lifetime |-> NULL,
      mki |-> NULL ]

\* m is the strsep of the method off the key parameter
MethodInfo(m) ==
    IF m[1] = <<"inline">>
    THEN InlineParam(strsep(strsep(m[2], {";"})[1], {"|"}))
    ELSE NotInline

\* one key parameter "method:info"
KeyParam(key_param) == MethodInfo(strsep(key_param, {":"}))

\* sdeslifetime of a lifetime field
SdesLifetime(lifetime) ==
    IF Len(lifetime) > 2
    THEN IF lifetime[1] = "2" /\ lifetime[2] = "^"
         THEN BitXor(2, atoi(SubSeq(lifetime, 3, Len(lifetime))))
         ELSE atoi(lifetime)
    ELSE atoi(lifetime)

\* no key parameter examined yet
NoScan ==
    [ found |-> FALSE, crash |-> FALSE, null_deref |-> FALSE, key_salt |-> NULL,
      mki |-> NULL, sdeslifetime |-> 0, inlines |-> 0 ]

\* the loop over the ";"-separated key parameters; ub is what a read through
\* a NULL pointer does: "crash" the process, or "benign" (it reads no character)
RECURSIVE ScanKeyParams(_, _, _)

\* the body of the loop for key parameter e, rest being what follows it
ScanEntry(e, rest, ub, acc) ==
    IF ~e.inline THEN ScanKeyParams(rest, ub, acc)
    ELSE IF e.null_deref /\ ub = "crash"
    THEN [acc EXCEPT !.crash = TRUE, !.null_deref = TRUE, !.key_salt = e.key_salt,
                     !.inlines = @ + 1]
    ELSE IF e.lifetime # NULL
    THEN ScanKeyParams(rest, ub,
             [acc EXCEPT !.key_salt = e.key_salt, !.mki = e.mki,
                         !.sdeslifetime = SdesLifetime(e.lifetime),
                         !.inlines = @ + 1])
    ELSE [acc EXCEPT !.found = TRUE, !.null_deref = e.null_deref,
                     !.key_salt = e.key_salt, !.mki = e.mki, !.inlines = @ + 1]

ScanNext(s, ub, acc) ==
    IF s[1] = NULL THEN acc ELSE ScanEntry(KeyParam(s[1]), s[2], ub, acc)

ScanKeyParams(key_params, ub, acc) == ScanNext(strsep(key_params, {";"}), ub, acc)

\* the parser stopped with this error before any key was chosen
ParseError(err) ==
    [ err |-> err, crash |-> FALSE, tag |-> NULL, suite |-> NULL, remote_key |-> <<>>,
      decoded |-> FALSE, key_len |-> -1, null_deref |-> FALSE, inlines |-> 0,
      mki |-> NULL, sdeslifetime |-> 0 ]

\* KeyLenOK that only refuses keys that are too short
KeyLenAtLeast(key_len) == key_len >= SRTP_MASTER_LEN

\* key_len == SRTP_MASTER_LEN
KeyLenOK(key_len) == key_len = SRTP_MASTER_LEN

\* the chosen key parameter's key and salt, decoded
DecodeChosen(scanned, key_salt, remote_key, ub) ==
    IF key_salt = NULL /\ ub = "crash"
    THEN [scanned EXCEPT !.err = "crash", !.crash = TRUE]
    ELSE IF ~KeyLenOK(Len(remote_key))
    THEN [scanned EXCEPT !.err = "KeyLengthMismatch", !.decoded = TRUE,
                         !.key_len = Len(remote_key)]
    ELSE [scanned EXCEPT !.remote_key = remote_key, !.decoded = TRUE,
                         !.key_len = Len(remote_key)]

\* after the loop: found or not
AfterScan(scanned, sc, ub) ==
    IF sc.crash THEN [scanned EXCEPT !.err = "crash", !.crash = TRUE]
    ELSE IF ~sc.found THEN [scanned EXCEPT !.err = "NoAcceptableOffer"]
    ELSE DecodeChosen(scanned, sc.key_salt,
                      IF sc.key_salt = NULL THEN <<>> ELSE ast_base64decode(sc.key_salt),
                      ub)

\* what the loop leaves behind, with tag and suite of the line
Scanned(a, sc) ==
    [ParseError("none") EXCEPT !.tag = a.tag, !.suite = a.suite,
         !.null_deref = sc.null_deref, !.inlines = sc.inlines,
         !.mki = sc.mki, !.sdeslifetime = sc.sdeslifetime]

ScanLine(a, sc, ub) == AfterScan(Scanned(a, sc), sc, ub)

\* ParseTokens that matches the suite before it looks for session parameters
ParseTokensSuiteFirst(a, ub) ==
    IF a.tag = NULL \/ a.suite = NULL THEN ParseError("MalformedLine")
    ELSE IF SuiteVal(a.suite) = "0" THEN ParseError("UnsupportedSuite")
    ELSE IF a.session_params # NULL THEN ParseError("UnsupportedSessionParams")
    ELSE ScanLine(a, ScanKeyParams(a.key_params, ub, NoScan), ub)

\* the checks on the tokens, then the loop over the key parameters
ParseTokens(a, ub) ==
    IF a.tag = NULL \/ a.suite = NULL THEN ParseError("MalformedLine")
    ELSE IF a.session_params # NULL THEN ParseError("UnsupportedSessionParams")
    ELSE IF SuiteVal(a.suite) = "0" THEN ParseError("UnsupportedSuite")
    ELSE ScanLine(a, ScanKeyParams(a.key_params, ub, NoScan), ub)

\* the parsing half of sdp_crypto_process: from the attribute text to the tag,
\* the suite and the decoded remote key, or to the error it returns -1 for
ParseLine(attr, ub) == ParseTokens(ParseAttr(attr), ub)

-----------------------------------------------------------------------------
(* sdp_crypto_process *)

\* a return of -1 before anything is stored
Rejected(q, err) ==
    [ ret |-> -1, err |-> err, crash |-> FALSE, p |-> q, act |-> NotActivated,
      key_len |-> -1 ]

\* SameKey with the comparison inverted (memcmp without the "!")
SameKeyInverted(stored, remote_key) == stored # remote_key

\* !memcmp(p->remote_key, remote_key, sizeof(p->remote_key))
SameKey(stored, remote_key) == stored = remote_key

\* StoreAnswer that copies the key into local_key as well
StoreAnswerBothKeys(q, suite, remote_key) ==
    [q EXCEPT !.suite = suite, !.remote_key = remote_key, !.local_key = remote_key]

\* "Set the accepted policy and remote key"
StoreAnswer(q, suite, remote_key) ==
    [q EXCEPT !.suite = suite, !.remote_key = remote_key]

\* AdoptTag without the test for a tag already held
AdoptTagAlways(q, tag) == [q EXCEPT !.tag = tag]

\* the tag of the answer is taken when the context has none
AdoptTag(q, tag) == IF q.tag = NULL THEN [q EXCEPT !.tag = tag] ELSE q

\* AfterActivate that takes the tag and rebuilds the line before it looks at
\* the result of the activation
AfterActivateTagFirst(q1, tag, act) ==
    [ ret |-> IF act.res < 0 THEN -1 ELSE 0,
      err |-> IF act.res < 0 THEN "PolicyActivationFailure" ELSE "none",
      crash |-> FALSE, p |-> sdp_crypto_offer(AdoptTag(q1, tag)).p, act |-> act,
      key_len |-> SRTP_MASTER_LEN ]

\* after sdp_crypto_activate: the tag and the rebuilt line on success
AfterActivate(q1, tag, act) ==
    IF act.res < 0
    THEN [ ret |-> -1, err |-> "PolicyActivationFailure", crash |-> FALSE,
           p |-> q1, act |-> act,
           key_len |-> SRTP_MASTER_LEN ]
    ELSE [ ret |-> sdp_crypto_offer(AdoptTag(q1, tag)).ret, err |-> "none",
           crash |-> FALSE, p |-> sdp_crypto_offer(AdoptTag(q1, tag)).p,
           act |-> act,
           key_len |-> SRTP_MASTER_LEN ]

\* the stored answer is activated
Activate(q1, tag, suite, remote_key, reg, eng) ==
    AfterActivate(q1, tag, sdp_crypto_activate(q1, SuiteVal(suite), remote_key, reg, eng))

\* AcceptKey that puts the old key and suite back when activation fails
AcceptKeyRollback(q, tag, suite, remote_key, reg, eng) ==
    IF SameKey(q.remote_key, remote_key)
    THEN [ ret |-> 0, err |-> "none", crash |-> FALSE, p |-> q, act |-> NotActivated,
           key_len |-> SRTP_MASTER_LEN ]
    ELSE IF Activate(StoreAnswer(q, suite, remote_key), tag, suite, remote_key, reg, eng).ret < 0
    THEN [ Activate(StoreAnswer(q, suite, remote_key), tag, suite, remote_key, reg, eng)
             EXCEPT !.p = q ]
    ELSE Activate(StoreAnswer(q, suite, remote_key), tag, suite, remote_key, reg, eng)

\* from the decoded key on: compare, store, activate, adopt the tag, rebuild
AcceptKey(q, tag, suite, remote_key, reg, eng) ==
    IF SameKey(q.remote_key, remote_key)
    THEN [ ret |-> 0, err |-> "none", crash |-> FALSE, p |-> q, act |-> NotActivated,
           key_len |-> SRTP_MASTER_LEN ]
    ELSE Activate(StoreAnswer(q, suite, remote_key), tag, suite, remote_key, reg, eng)

\* ProcessParsed with the suite copied into the context before the key is decoded
ProcessParsedEarlyStore(q, line, reg, eng) ==
    IF ~reg THEN Rejected(q, "EngineUnavailable")
    ELSE IF line.crash THEN [Rejected(q, "crash") EXCEPT !.crash = TRUE]
    ELSE IF line.err = "KeyLengthMismatch"
    THEN [Rejected([q EXCEPT !.suite = line.suite], line.err) EXCEPT !.key_len = line.key_len]
    ELSE IF line.err # "none" THEN [Rejected(q, line.err) EXCEPT !.key_len = line.key_len]
    ELSE AcceptKey(q, line.tag, line.suite, line.remote_key, reg, eng)

\* sdp_crypto_process(p, attr, rtp), given what its parsing half made of attr
ProcessParsed(q, line, reg, eng) ==
    IF ~reg THEN Rejected(q, "EngineUnavailable")
    ELSE IF line.crash THEN [Rejected(q, "crash") EXCEPT !.crash = TRUE]
    ELSE IF line.err # "none" THEN [Rejected(q, line.err) EXCEPT !.key_len = line.key_len]
    ELSE AcceptKey(q, line.tag, line.suite, line.remote_key, reg, eng)

\* sdp_crypto_process(p, attr, rtp)
sdp_crypto_process(q, attr, reg, ub, eng) ==
    ProcessParsed(q, ParseLine(attr, ub), reg, eng)

-----------------------------------------------------------------------------
(* The attribute lines the peer may send *)

\* the key text a peer writes for a key
Text(k) == B64EncodeFrom("rfc4648", k, 1)

Tags == <<<<"1">>, <<"2">>>>

Suites == <<SUITE_80, SUITE_32>>

MKI == <<"|", "1", ":", "3", "2">>

LIFETIME == <<"|", "2", "^", "2", "0">>

\* "crypto:<tag> <suite> <key-params>"
Attr(tag, suite, key_params) ==
    <<"crypto", ":">> \o tag \o <<" ">> \o suite \o <<" ">> \o key_params

Inline(text) == <<"inline", ":">> \o text

\* inline:<key>|1:32 for the keys from k on: tag 1 with the first suite and
\* tag 2 with the second
RECURSIVE MkiFrom(_)
MkiFrom(k) ==
    IF k > NumKeys THEN <<>>
    ELSE << Attr(Tags[1], Suites[1], Inline(Text(Key(k))) \o MKI),
            Attr(Tags[2], Suites[2], Inline(Text(Key(k))) \o MKI) >> \o MkiFrom(k + 1)

\* the same for key 1 with tag and suite crossed, and for the all-zero key
MkiAttrs ==
    << Attr(Tags[1], Suites[1], Inline(Text(Key(0))) \o MKI),
       Attr(Tags[1], Suites[2], Inline(Text(Key(1))) \o MKI),
       Attr(Tags[2], Suites[1], Inline(Text(Key(1))) \o MKI) >> \o MkiFrom(1)

\* inline:<key> with no second field, as SNOM sends it
PlainAttrs ==
    << Attr(Tags[1], Suites[1], Inline(Text(Key(0)))),
       Attr(Tags[1], Suites[1], Inline(Text(Key(1)))) >>

OtherAttrs ==
    << \* the same without the attribute name in front
       <<"1", " ">> \o SUITE_80 \o <<" ">> \o Inline(Text(Key(1))),
       <<"1", " ">> \o SUITE_80 \o <<" ">> \o Inline(Text(Key(1))) \o MKI,
       \* lifetimes
       Attr(<<"1">>, SUITE_80, Inline(Text(Key(1))) \o LIFETIME \o MKI),
       Attr(<<"1">>, SUITE_80, Inline(Text(Key(1))) \o LIFETIME),
       Attr(<<"1">>, SUITE_32, Inline(Text(Key(1))) \o <<"|", "3", "1">>),
       Attr(<<"1">>, SUITE_32, Inline(Text(Key(1))) \o <<"|", "1", "0", "0">>),
       \* several key parameters
       Attr(<<"2">>, SUITE_80,
            Inline(Text(Key(1))) \o LIFETIME \o <<"|", "1", ":", "4", ";">>
                \o Inline(Text(Key(2))) \o <<"|", "2", ":", "4">>),
       Attr(<<"2">>, SUITE_32,
            <<"other", ":", "x", ";">> \o Inline(Text(Key(2))) \o MKI),
       Attr(<<"1">>, SUITE_80, <<"other", ":", "x">>),
       Attr(<<"1">>, SUITE_80, <<"inline">>),
       \* session parameters
       Attr(<<"1">>, SUITE_80, Inline(Text(Key(1))) \o MKI \o <<" ", "FEC_ORDER=FEC_SRTP">>),
       Attr(<<"1">>, <<"F8_128_HMAC_SHA1_80">>,
            Inline(Text(Key(1))) \o MKI \o <<" ", "FEC_ORDER=FEC_SRTP">>),
       Attr(<<"1">>, SUITE_80, Inline(Text(Key(1))) \o <<" ", "FEC_ORDER=FEC_SRTP">>),
       \* suites that are not supported
       Attr(<<"1">>, <<"F8_128_HMAC_SHA1_80">>, Inline(Text(Key(1))) \o MKI),
       Attr(<<"1">>, <<"aes_cm_128_hmac_sha1_80">>, Inline(Text(Key(1))) \o MKI),
       Attr(<<"1">>, <<"F8_128_HMAC_SHA1_80">>, Inline(Text(Key(1)))),
       \* lines that are cut short
       <<"crypto", ":", "1">>,
       <<"crypto">>,
       <<"crypto", ":", "1", " ">> \o SUITE_80,
       \* keys of 29, 28, 31 and 33 bytes
       Attr(<<"1">>, SUITE_80, Inline(Text(SubSeq(Key(1), 1, 29))) \o MKI),
       Attr(<<"1">>, SUITE_80, Inline(Text(SubSeq(Key(2), 1, 28))) \o MKI),
       Attr(<<"1">>, SUITE_32, Inline(Text(Key(1) \o <<7>>)) \o MKI),
       Attr(<<"1">>, SUITE_80, Inline(Text(Key(2) \o <<1, 2, 3>>)) \o MKI) >>

Attrs == MkiAttrs \o PlainAttrs \o OtherAttrs

\* what a read through a NULL pointer may do
NullReads == {"crash", "benign"}

\* ParseLine of every line, worked out once
Parsed == [n \in DOMAIN Attrs |-> [ub \in NullReads |-> ParseLine(Attrs[n], ub)]]

-----------------------------------------------------------------------------
(* The state machine *)

NoRtp == [srtp |-> FALSE, remote_policy |-> NoPolicy, local_policy |-> NoPolicy]

NoCall ==
    [ op |-> "init", ret |-> 0, err |-> "none", key_len |-> -1, installed |-> FALSE,
      allocs |-> 0, destroys |-> 0 ]

Init ==
    /\ registered \in BOOLEAN
    /\ codec \in Codecs
    /\ live = FALSE
    /\ p = sdp_crypto_alloc
    /\ rtp = NoRtp
    /\ handles = 0
    /\ crashed = FALSE
    /\ last = NoCall

\* res_srtp registers with or unregisters from the RTP engine
EngineChange ==
    /\ ~crashed
    /\ registered' = ~registered
    /\ last' = [NoCall EXCEPT !.op = "engine"]
    /\ UNCHANGED <<codec, live, p, rtp, handles, crashed>>

\* sdp_crypto_setup returns r
SetupReturns(r) ==
    /\ live' = r.ok
    /\ p' = r.p
    /\ last' = [NoCall EXCEPT !.op = "setup", !.ret = IF r.ok THEN 0 ELSE -1,
                              !.err = r.err]

\* what get_random may do: fail, or fill the key
RandomOutcomes ==
    {[res |-> -1, key |-> ZeroKey]} \cup {[res |-> 0, key |-> k] : k \in RandomKeys}

\* sdp_crypto_setup with get_random doing rnd
SetupWith(rnd) ==
    /\ ~crashed
    /\ ~live
    /\ SetupReturns(sdp_crypto_setup(registered, rnd, codec))
    /\ UNCHANGED <<registered, codec, rtp, handles, crashed>>

\* the channel has no context and asks for one
Setup == \E rnd \in RandomOutcomes : SetupWith(rnd)

\* the channel writes its SDP
Offer ==
    /\ ~crashed
    /\ live
    /\ p' = sdp_crypto_offer(p).p
    /\ last' = [NoCall EXCEPT !.op = "offer", !.ret = sdp_crypto_offer(p).ret]
    /\ UNCHANGED <<registered, codec, live, rtp, handles, crashed>>

\* whether the call reads through a NULL pointer
ReachesNull(n) == registered /\ Parsed[n]["crash"].crash

\* whether the call gets as far as activating a policy
ReachesActivation(n, ub) ==
    /\ registered
    /\ Parsed[n][ub].err = "none"
    /\ ~SameKey(p.remote_key, Parsed[n][ub].remote_key)

\* the call returns r
ProcessReturns(r) ==
    /\ p' = r.p
    /\ crashed' = r.crash
    /\ rtp' = IF r.act.installed
              THEN [srtp |-> TRUE, remote_policy |-> r.act.remote_policy,
                    local_policy |-> r.act.local_policy]
              ELSE rtp
    /\ handles' = handles + r.act.local_alloc + r.act.remote_alloc
                      - r.act.local_destroy - r.act.remote_destroy
    /\ last' = [ op |-> "process", ret |-> r.ret, err |-> r.err,
                 key_len |-> r.key_len, installed |-> r.act.installed,
                 allocs |-> r.act.local_alloc + r.act.remote_alloc,
                 destroys |-> r.act.local_destroy + r.act.remote_destroy ]

\* sdp_crypto_process on line n of Attrs, with what a NULL read and the
\* engine do during the call
ProcessWith(n, ub, eng) ==
    /\ ~crashed
    /\ live
    /\ ProcessReturns(ProcessParsed(p, Parsed[n][ub], registered, eng))
    /\ UNCHANGED <<registered, codec, live>>

\* the channel reads an a=crypto line of the peer's SDP
Process ==
    \E n \in DOMAIN Attrs :
    \E ub \in IF ReachesNull(n) THEN NullReads ELSE {"benign"} :
    \E eng \in IF ReachesActivation(n, ub) THEN EngineOutcomes ELSE {"ok"} :
        ProcessWith(n, ub, eng)

\* sdp_crypto_destroy(p): the media session ends
Destroy ==
    /\ ~crashed
    /\ live
    /\ live' = FALSE
    /\ p' = sdp_crypto_alloc
    /\ rtp' = NoRtp
    /\ last' = [NoCall EXCEPT !.op = "destroy"]
    /\ UNCHANGED <<registered, codec, handles, crashed>>

Next == EngineChange \/ Setup \/ Offer \/ Process \/ Destroy

Spec == Init /\ [][Next]_vars

-----------------------------------------------------------------------------
(* Properties *)

ParseErrors ==
    { "MalformedLine", "UnsupportedSessionParams", "UnsupportedSuite",
      "NoAcceptableOffer", "KeyLengthMismatch" }

\* the tag a reader of the offer line finds in it
LineTag(line) == strsep(strsep(line, {":"})[2], {" "})[1]

\* the context as sdp_crypto_setup returned it, nothing installed yet
Fresh ==
    /\ live
    /\ p.remote_key = ZeroKey
    /\ p.tag = NULL
    /\ p.suite = <<>>
    /\ p.a_crypto = NULL
    /\ ~rtp.srtp

\* C1: a call of sdp_crypto_process that returns -1 from its parsing half
\* (malformed line, session parameters, unsupported suite, no acceptable key
\* parameter, key length) leaves remote_key, suite, tag and the offer line as
\* they were, allocates no policy and installs none.
C1_ParseFailureKeepsContext ==
    [][ (last'.op = "process" /\ last'.err \in ParseErrors)
        => /\ last'.ret = -1
           /\ p'.remote_key = p.remote_key
           /\ p'.suite = p.suite
           /\ p'.tag = p.tag
           /\ p'.a_crypto = p.a_crypto
           /\ last'.allocs = 0
           /\ ~last'.installed
           /\ rtp' = rtp
           /\ handles' = handles ]_vars

\* a key of the wrong length is refused while another key is in use
C1_Witness ==
    /\ last.op = "process"
    /\ last.err = "KeyLengthMismatch"
    /\ last.key_len < SRTP_MASTER_LEN
    /\ p.remote_key # ZeroKey
    /\ p.suite = SUITE_32
    /\ rtp.srtp

\* a result of sdp_crypto_process that reports success and did nothing to q
NothingDone(r, q) ==
    /\ r.ret = 0
    /\ r.p = q
    /\ ~r.crash
    /\ ~r.act.installed
    /\ r.act.local_alloc = 0
    /\ r.act.remote_alloc = 0

\* the line that gave r, handed in again to the context r left, does nothing
AgainNothingDone(r, line, reg) ==
    r.ret = 0 =>
        \A eng2 \in EngineOutcomes :
            NothingDone(ProcessParsed(r.p, line, reg, eng2), r.p)

\* the lines sdp_crypto_process can be called with in this state
Callable == IF live /\ ~crashed /\ registered THEN DOMAIN Attrs ELSE {}

\* C2: a call whose decoded key equals the stored remote_key returns 0 and
\* changes nothing, whatever suite and tag the line names, and activates no
\* policy; and the line of a call that returned 0, handed in again, returns 0
\* and leaves the state of the first call.
C2_SameKeyIsNoOp ==
    /\ [](\A n \in Callable : \A ub \in NullReads : \A eng \in EngineOutcomes :
            /\ (Parsed[n][ub].err = "none" /\ Parsed[n][ub].remote_key = p.remote_key)
               => NothingDone(ProcessParsed(p, Parsed[n][ub], registered, eng), p)
            /\ AgainNothingDone(ProcessParsed(p, Parsed[n][ub], registered, eng),
                                Parsed[n][ub], registered))
    /\ [][ (last'.op = "process" /\ last'.ret = 0 /\ ~last'.installed)
           => /\ p' = p
              /\ rtp' = rtp
              /\ handles' = handles
              /\ last'.allocs = 0 ]_vars

\* a key in use under tag 1 and the first suite arrives again and nothing is
\* installed for it
C2_Witness ==
    /\ last.op = "process"
    /\ last.ret = 0
    /\ ~last.installed
    /\ last.allocs = 0
    /\ p.remote_key = Key(NumKeys)
    /\ p.tag = <<"1">>
    /\ p.suite = SUITE_80
    /\ rtp.srtp
    /\ rtp.remote_policy.suite = "AST_AES_CM_128_HMAC_SHA1_80"

\* the lines "crypto:1 AES_CM_128_HMAC_SHA1_80 inline:<key>" of the keys that
\* are not all zero
C3Lines ==
    { n \in DOMAIN Attrs :
        \E k \in 1..NumKeys : Attrs[n] = Attr(<<"1">>, SUITE_80, Inline(Text(Key(k)))) }

\* C3: on a fresh context, with the engine registered and activation
\* succeeding, the line "1 AES_CM_128_HMAC_SHA1_80 inline:<key>" (here with
\* the "crypto:" the parser drops in front) is accepted: the call returns 0,
\* stores the key and the suite and installs the policies.
C3_PlainKeyAccepted ==
    [][ \A n \in C3Lines : \A ub \in NullReads :
          (Fresh /\ registered /\ ProcessWith(n, ub, "ok"))
          => /\ ~crashed'
             /\ last'.ret = 0
             /\ p'.remote_key = Parsed[n]["benign"].remote_key
             /\ p'.suite = SUITE_80
             /\ last'.installed
             /\ rtp'.srtp ]_vars

C5_TagSetOnce ==
    [][ /\ (live /\ p.tag # NULL /\ last'.op \in {"process", "offer"})
           => p'.tag = p.tag
        /\ (live' /\ p'.tag # NULL /\ p'.a_crypto # NULL)
           => LineTag(p'.a_crypto) = p'.tag ]_vars

\* tag 1 is held while the key that only arrives with tag 2 under the second
\* suite is accepted
C5_Witness ==
    /\ last.op = "process"
    /\ last.ret = 0
    /\ last.installed
    /\ p.tag = <<"1">>
    /\ p.suite = SUITE_32
    /\ p.remote_key = Key(NumKeys)
    /\ LineTag(p.a_crypto) = <<"1">>

\* the offer line the context's tag, suite and key text call for
Rendering(q) ==
    <<"a=crypto", ":">> \o (IF q.tag = NULL THEN <<"1">> ELSE q.tag) \o <<" ">>
        \o (IF q.suite = <<>> THEN SUITE_80 ELSE q.suite)
        \o <<" ", "inline", ":">> \o q.local_key64 \o <<"\r\n">>

\* C6: after every operation an offer line the context holds is the rendering
\* of its current tag, suite and key text.
C6_OfferLineCurrent ==
    (live /\ sdp_crypto_attrib(p) # NULL) => sdp_crypto_attrib(p) = Rendering(p)

\* C7: sdp_crypto_offer called again on the context it left returns 0 and
\* leaves every field, the line included, as the first call left them; the
\* first call changes tag and keys not at all and the suite only from unset to
\* the default.
C7_OfferIdempotent ==
    [][ last'.op = "offer"
        => /\ last'.ret = 0
           /\ sdp_crypto_offer(p').ret = 0
           /\ sdp_crypto_offer(p').p = p'
           /\ sdp_crypto_attrib(sdp_crypto_offer(p').p) = sdp_crypto_attrib(p')
           /\ p'.tag = p.tag
           /\ p'.remote_key = p.remote_key
           /\ p'.local_key = p.local_key
           /\ p'.local_key64 = p.local_key64
           /\ p'.suite = (IF p.suite = <<>> THEN SUITE_80 ELSE p.suite)
           /\ (last.op = "offer" => p' = p) ]_vars

\* the first offer of a context filled in the default suite
C7_Witness ==
    /\ last.op = "offer"
    /\ live
    /\ p.suite = SUITE_80
    /\ p.tag = NULL
    /\ p.remote_key = ZeroKey
    /\ sdp_crypto_attrib(p) # NULL

\* the result of a call that accepted a new key for q: the line it left
AcceptedLine(r, q, line) ==
    /\ r.ret = 0
    /\ r.act.installed
    /\ sdp_crypto_attrib(r.p) =
         <<"a=crypto", ":">> \o (IF q.tag = NULL THEN line.tag ELSE q.tag)
           \o <<" ">> \o line.suite
           \o <<" ", "inline", ":">> \o q.local_key64 \o <<"\r\n">>

\* C8: the line sdp_crypto_offer leaves is "a=crypto:", the tag held or "1",
\* a space, the suite held or AES_CM_128_HMAC_SHA1_80, " inline:", the local
\* key text and CRLF; after sdp_crypto_process succeeds with a new key the
\* line has the tag then held (the answer's when none was) and the answer's
\* suite.
C8_OfferLineFormat ==
    /\ [](\A n \in Callable : \A ub \in NullReads :
            (Parsed[n][ub].err = "none" /\ Parsed[n][ub].remote_key # p.remote_key)
            => AcceptedLine(ProcessParsed(p, Parsed[n][ub], registered, "ok"),
                            p, Parsed[n][ub]))
    /\ [][ /\ last'.op = "offer"
              => sdp_crypto_attrib(p') =
                   <<"a=crypto", ":">> \o (IF p.tag = NULL THEN <<"1">> ELSE p.tag)
                     \o <<" ">> \o (IF p.suite = <<>> THEN SUITE_80 ELSE p.suite)
                     \o <<" ", "inline", ":">> \o p.local_key64 \o <<"\r\n">>
           /\ (last'.op = "process" /\ last'.installed)
              => /\ last'.ret = 0
                 /\ p.tag # NULL => p'.tag = p.tag
                 /\ sdp_crypto_attrib(p') =
                      <<"a=crypto", ":">> \o p'.tag \o <<" ">> \o p'.suite
                        \o <<" ", "inline", ":">> \o p.local_key64 \o <<"\r\n">>
         ]_vars

\* an answer with tag 2 and the second suite was accepted by a context that
\* held no tag
C8_Witness ==
    /\ last.op = "process"
    /\ last.ret = 0
    /\ last.installed
    /\ p.tag = <<"2">>
    /\ p.suite = SUITE_32
    /\ sdp_crypto_attrib(p) =
         <<"a=crypto", ":", "2", " ">> \o SUITE_32 \o <<" ", "inline", ":">>
            \o p.local_key64 \o <<"\r\n">>

\* the result of a call on q whose activation failed: the line's key and suite
\* are in the context
FailedButStored(r, q, line) ==
    /\ r.ret = -1
    /\ r.err = "PolicyActivationFailure"
    /\ ~r.act.installed
    /\ r.p.remote_key = line.remote_key
    /\ r.p.suite = line.suite
    /\ r.p.tag = q.tag
    /\ r.p.a_crypto = q.a_crypto

\* C9: a call that decodes a key other than the stored one and whose policy
\* activation fails returns -1 with the context holding the key and the suite
\* of the line.
C9_NoRollback ==
    /\ [](\A n \in Callable : \A ub \in NullReads :
          \A eng \in EngineOutcomes \ {"ok"} :
            (Parsed[n][ub].err = "none" /\ Parsed[n][ub].remote_key # p.remote_key)
            => FailedButStored(ProcessParsed(p, Parsed[n][ub], registered, eng),
                               p, Parsed[n][ub]))
    /\ [][ (last'.op = "process" /\ last'.err = "PolicyActivationFailure")
           => /\ last'.ret = -1
              /\ ~last'.installed
              /\ rtp' = rtp
              /\ p'.remote_key # p.remote_key
              /\ p'.remote_key \in RemoteKeys
              /\ p'.suite \in {SUITE_80, SUITE_32} ]_vars

\* activation failed while another key's policy was installed: the context
\* holds a key the transport does not use
C9_Witness ==
    /\ last.op = "process"
    /\ last.ret = -1
    /\ last.err = "PolicyActivationFailure"
    /\ rtp.srtp
    /\ p.remote_key # ZeroKey
    /\ rtp.remote_policy.key # SubSeq(p.remote_key, 1, SRTP_MASTERKEY_LEN)

\* C10: sdp_crypto_setup returns a context exactly when the engine is
\* registered, get_random succeeded and the text of the local key decodes to
\* 30 bytes equal to the local key; the context returned holds that key and
\* its text.
C10_SetupSelfTest ==
    [][ \A rnd \in RandomOutcomes :
          SetupWith(rnd)
          => /\ live' <=>
                  /\ registered
                  /\ rnd.res >= 0
                  /\ Len(ast_base64decode(
                         ast_base64encode(codec, rnd.key, SRTP_MASTER_LEN64)))
                       = SRTP_MASTER_LEN
                  /\ ast_base64decode(
                         ast_base64encode(codec, rnd.key, SRTP_MASTER_LEN64)) = rnd.key
             /\ live' => /\ p'.local_key = rnd.key
                         /\ ast_base64decode(p'.local_key64) = p'.local_key
                         /\ last'.ret = 0
             /\ ~live' => last'.ret = -1 ]_vars

\* the codec gave back 30 bytes that are not the key and no context came of it
C10_Witness ==
    /\ last.op = "setup"
    /\ last.err = "SelfTestFailure"
    /\ last.ret = -1
    /\ ~live
    /\ codec = "urlsafe"

\* C11: with no SRTP engine registered sdp_crypto_setup returns no context,
\* sdp_crypto_process returns -1 before it parses, leaving the context and the
\* transport alone and allocating no policy, and sdp_crypto_offer returns -1
\* and writes no line.
C11_EngineCheckedEverywhere ==
    [][ ~registered
        => /\ last'.op = "setup"
              => /\ ~live'
                 /\ last'.ret = -1
                 /\ last'.err = "EngineUnavailable"
           /\ last'.op = "process"
              => /\ last'.ret = -1
                 /\ last'.err = "EngineUnavailable"
                 /\ last'.key_len = -1
                 /\ last'.allocs = 0
                 /\ p' = p
                 /\ rtp' = rtp
           /\ last'.op = "offer"
              => /\ last'.ret = -1
                 /\ sdp_crypto_attrib(p') = sdp_crypto_attrib(p)
                 /\ p'.suite = p.suite ]_vars

\* the pieces of text s between the occurrences of the character c
RECURSIVE SplitOn(_, _)

SplitAt(s, c, i) == <<SubSeq(s, 1, i - 1)>> \o SplitOn(SubSeq(s, i + 1, Len(s)), c)

SplitOn(s, c) ==
    IF \A i \in 1..Len(s) : s[i] # c THEN <<s>>
    ELSE SplitAt(s, c, Min({i \in 1..Len(s) : s[i] = c}))

\* the entries of the key-params list of a line, none when the token is absent
Entries(attr) ==
    IF ParseAttr(attr).key_params = NULL THEN <<>>
    ELSE SplitOn(ParseAttr(attr).key_params, ";")

\* the "|"-separated fields that follow "method:" in an entry
FieldsOf(e) ==
    IF Len(SplitOn(e, ":")[1]) + 1 >= Len(e) THEN <<>>
    ELSE SplitOn(SubSeq(e, Len(SplitOn(e, ":")[1]) + 2, Len(e)), "|")

IsInlineEntry(e) == SplitOn(e, ":")[1] = <<"inline">>

\* the tie-break: a second field holding ":" is the MKI, any other second
\* field is the lifetime
SecondIsMki(e) ==
    /\ Len(FieldsOf(e)) >= 2
    /\ \E i \in 1..Len(FieldsOf(e)[2]) : FieldsOf(e)[2][i] = ":"

HasLifetime(e) == Len(FieldsOf(e)) >= 2 /\ ~SecondIsMki(e)

LifetimeOf(e) == IF HasLifetime(e) THEN FieldsOf(e)[2] ELSE NULL

MkiOf(e) ==
    IF SecondIsMki(e) THEN FieldsOf(e)[2]
    ELSE IF Len(FieldsOf(e)) >= 3 THEN FieldsOf(e)[3]
    ELSE NULL

\* the entries a key may be taken from
Candidates(es) == {i \in 1..Len(es) : IsInlineEntry(es[i]) /\ ~HasLifetime(es[i])}

\* the key-and-salt text of an entry, empty when nothing follows the method
KeySaltOf(e) == IF FieldsOf(e) = <<>> THEN <<>> ELSE FieldsOf(e)[1]

\* the call either found no candidate, or decoded the key text of the first one
ChoseFirst(r, q, es) ==
    IF Candidates(es) = {}
    THEN r.ret = -1 /\ r.err = "NoAcceptableOffer" /\ r.p = q
    ELSE /\ ~r.crash
         /\ r.err # "NoAcceptableOffer"
         /\ r.key_len = Len(ast_base64decode(KeySaltOf(es[Min(Candidates(es))])))
         /\ r.key_len = SRTP_MASTER_LEN
            => /\ r.ret = 0
               /\ r.p.remote_key = ast_base64decode(KeySaltOf(es[Min(Candidates(es))]))

\* the lines that pass the checks on tag, suite and session parameters
PastTokens(n) ==
    Parsed[n]["benign"].err \notin
        {"MalformedLine", "UnsupportedSessionParams", "UnsupportedSuite"}

\* C12: of a key-params list the call takes the first inline entry without a
\* lifetime: entries of other methods and inline entries with a lifetime are
\* passed over, the key decoded is the chosen entry's, and with no such entry
\* the call fails for want of an acceptable offer.
C12_FirstCandidateChosen ==
    \A n \in Callable : \A ub \in NullReads :
        PastTokens(n)
        => ChoseFirst(ProcessParsed(p, Parsed[n][ub], registered, "ok"), p,
                      Entries(Attrs[n]))

\* what the loop makes of the single entry e
ClassifiedAs(e, ub) ==
    /\ KeyParam(e).lifetime = LifetimeOf(e)
    /\ KeyParam(e).mki = MkiOf(e)
    /\ ~ScanKeyParams(e, ub, NoScan).crash
    /\ ScanKeyParams(e, ub, NoScan).found = ~HasLifetime(e)

\* C13: of an inline entry "key|F2[|F3]" F2 is the MKI when it holds ":" and
\* the entry is then taken; any other F2 is the lifetime, the entry is passed
\* over and F3 is the MKI; an entry of the key alone has neither and is taken.
C13_SecondFieldTieBreak ==
    \A n \in Callable : \A ub \in NullReads :
    \A i \in 1..Len(Entries(Attrs[n])) :
        IsInlineEntry(Entries(Attrs[n])[i]) => ClassifiedAs(Entries(Attrs[n])[i], ub)

\* the key text a reader of the offer line finds after "inline:"
LineKey(line) ==
    strsep(strsep(strsep(line, {":"})[2], {":"})[2], {"\r\n"})[1]

\* C14: sdp_crypto_offer and sdp_crypto_process, whatever they return, leave
\* local_key and local_key64 as sdp_crypto_setup wrote them, and every offer
\* line carries that key text.
C14_LocalKeyImmutable ==
    /\ [](live => /\ p.local_key \in RandomKeys
                  /\ ast_base64decode(p.local_key64) = p.local_key
                  /\ sdp_crypto_attrib(p) # NULL
                     => LineKey(sdp_crypto_attrib(p)) = p.local_key64)
    /\ [][ (live /\ last'.op \in {"process", "offer"})
           => /\ p'.local_key = p.local_key
              /\ p'.local_key64 = p.local_key64 ]_vars

\* an answer was accepted and the line rebuilt: the local key is the one of
\* setup still
C14_Witness ==
    /\ last.op = "process"
    /\ last.installed
    /\ p.remote_key # ZeroKey
    /\ p.local_key \in RandomKeys
    /\ p.local_key # p.remote_key
    /\ LineKey(sdp_crypto_attrib(p)) = p.local_key64
    /\ ast_base64decode(LineKey(sdp_crypto_attrib(p))) = p.local_key

\* what sdp_crypto_activate allocated it destroyed, once, and nothing else;
\* first is whether the first allocation was made, second the second
Released(a, first, second) ==
    /\ a.local_alloc = (IF first THEN 1 ELSE 0)
    /\ a.remote_alloc = (IF second THEN 1 ELSE 0)
    /\ a.local_destroy = a.local_alloc
    /\ a.remote_destroy = a.remote_alloc
    /\ a.installed = (a.res = 0)

\* C15: whichever step of sdp_crypto_activate fails, or none, each policy it
\* allocated is destroyed once before it returns and none that it did not
\* allocate; no call of sdp_crypto_process leaves a policy handle outstanding.
C15_PoliciesReleased ==
    /\ handles = 0
    /\ last.allocs = last.destroys
    /\ (live /\ registered)
       => \A eng \in EngineOutcomes : \A k \in RemoteKeys : \A s \in {SUITE_80, SUITE_32} :
            /\ Released(sdp_crypto_activate(p, SuiteVal(s), k, registered, eng),
                        eng # "alloc_local",
                        eng \notin {"alloc_local", "alloc_remote"})
            /\ sdp_crypto_activate(p, SuiteVal(s), k, registered, eng).res
                 = (IF eng = "ok" THEN 0 ELSE -1)

\* the second allocation failed: the one policy allocated was destroyed
C15_Witness ==
    /\ last.op = "process"
    /\ last.err = "PolicyActivationFailure"
    /\ last.allocs = 1
    /\ last.destroys = 1
    /\ handles = 0

\* the space-separated tokens that follow the attribute name and its ":"
TokensOf(attr) ==
    IF Len(SplitOn(attr, ":")[1]) = Len(attr) THEN <<>>
    ELSE SplitOn(SubSeq(attr, Len(SplitOn(attr, ":")[1]) + 2, Len(attr)), " ")

\* the tokens of each line of Attrs
LineTokens == [n \in DOMAIN Attrs |-> TokensOf(Attrs[n])]

\* the line was refused with err and no key parameter was looked at
RefusedUnscanned(r, line, q, err) ==
    /\ r.ret = -1
    /\ r.err = err
    /\ ~r.crash
    /\ r.key_len = -1
    /\ r.p = q
    /\ line.inlines = 0
    /\ ~line.decoded
    /\ ~line.null_deref

\* C16: a line with a fourth token is refused for its session parameters
\* whatever its suite and key parameters are, and a line of three tokens with
\* a suite name other than the two supported ones, compared as written, is
\* refused for its suite; in both cases no key parameter is examined and no
\* key decoded.
C16_ChecksInOrder ==
    /\ [](\A n \in Callable : \A ub \in NullReads :
            /\ Len(LineTokens[n]) >= 4
               => RefusedUnscanned(ProcessParsed(p, Parsed[n][ub], registered, "ok"),
                                   Parsed[n][ub], p, "UnsupportedSessionParams")
            /\ ( /\ Len(LineTokens[n]) \in {2, 3}
                 /\ LineTokens[n][2] \notin {SUITE_80, SUITE_32} )
               => RefusedUnscanned(ProcessParsed(p, Parsed[n][ub], registered, "ok"),
                                   Parsed[n][ub], p, "UnsupportedSuite"))
    /\ [][ ( /\ last'.op = "process"
             /\ last'.err \in {"UnsupportedSessionParams", "UnsupportedSuite"} )
           => /\ last'.key_len = -1
              /\ ~crashed'
              /\ p' = p ]_vars

\* a line with session parameters was refused while a key was in use
C16_Witness ==
    /\ last.op = "process"
    /\ last.err = "UnsupportedSessionParams"
    /\ last.key_len = -1
    /\ p.remote_key # ZeroKey
    /\ rtp.srtp
    /\ \E n \in Callable :
         /\ Len(LineTokens[n]) >= 4
         /\ LineTokens[n][2] \notin {SUITE_80, SUITE_32}

\* the number a run of decimal digits writes
RECURSIVE DecimalOf(_)

DecimalOf(t) ==
    IF t = <<>> THEN 0
    ELSE 10 * DecimalOf(SubSeq(t, 1, Len(t) - 1)) + DigitVal(t[Len(t)])

\* the number of packets a lifetime field stands for: "2^N" is 2 to the N
PacketsOf(lifetime) ==
    IF Len(lifetime) > 2 /\ lifetime[1] = "2" /\ lifetime[2] = "^"
    THEN 2 ^ DecimalOf(SubSeq(lifetime, 3, Len(lifetime)))
    ELSE DecimalOf(lifetime)

\* the lines of one key parameter, inline with a lifetime
LifetimeLines ==
    { n \in DOMAIN Attrs :
        /\ PastTokens(n)
        /\ Len(Entries(Attrs[n])) = 1
        /\ IsInlineEntry(Entries(Attrs[n])[1])
        /\ HasLifetime(Entries(Attrs[n])[1]) }

\* C17: the lifetime the call computes for a field "2^N" is 2 to the power N,
\* and for a field of decimal digits the number they write.
C17_LifetimeIsPower ==
    \A n \in Callable \cap LifetimeLines : \A ub \in NullReads :
        /\ Parsed[n][ub].sdeslifetime = PacketsOf(LifetimeOf(Entries(Attrs[n])[1]))
        /\ SdesLifetime(LifetimeOf(Entries(Attrs[n])[1]))
             = PacketsOf(LifetimeOf(Entries(Attrs[n])[1]))

\* C18: whenever sdp_crypto_process has returned 0, the transport holds a
\* policy pair whose remote policy has the key and salt of the stored
\* remote_key and the suite of the stored suite.
C18_SuccessMeansInstalled ==
    (last.op = "process" /\ last.ret = 0)
    => /\ rtp.srtp
       /\ rtp.remote_policy.key = SubSeq(p.remote_key, 1, SRTP_MASTERKEY_LEN)
       /\ rtp.remote_policy.salt =
            SubSeq(p.remote_key, SRTP_MASTERKEY_LEN + 1, SRTP_MASTER_LEN)
       /\ rtp.remote_policy.suite = SuiteVal(p.suite)

\* C19: a call of sdp_crypto_process that fails in the activation of the
\* policies leaves the tag and the offer line as they were; a call that
\* changes either of them has installed the policies.
C19_FailedActivationKeepsTagAndLine ==
    [][ /\ (last'.op = "process" /\ last'.err = "PolicyActivationFailure")
           => /\ last'.ret = -1
              /\ p'.tag = p.tag
              /\ sdp_crypto_attrib(p') = sdp_crypto_attrib(p)
        /\ ( /\ live
             /\ last'.op = "process"
             /\ (p'.tag # p.tag \/ sdp_crypto_attrib(p') # sdp_crypto_attrib(p)) )
           => /\ last'.ret = 0
              /\ last'.installed ]_vars

\* the activation for a first answer failed after an offer was written: the
\* context has no tag and the line still names tag 1 and the default suite,
\* while the suite stored is the other one
C19_Witness ==
    /\ last.op = "process"
    /\ last.err = "PolicyActivationFailure"
    /\ p.tag = NULL
    /\ p.suite = SUITE_32
    /\ p.remote_key # ZeroKey
    /\ sdp_crypto_attrib(p) # NULL
    /\ LineTag(sdp_crypto_attrib(p)) = <<"1">>

\* the suite name a reader of the offer line finds in it
LineSuite(line) ==
    strsep(strsep(strsep(line, {":"})[2], {" "})[2], {" "})[1]

\* C20: the suite of the context is unset or one of the two supported names,
\* an offer line names one of the two, and sdp_crypto_offer sets the suite to
\* AES_CM_128_HMAC_SHA1_80 when it is unset and leaves it alone otherwise.
C20_SuiteSupported ==
    /\ [](/\ p.suite \in {<<>>, SUITE_80, SUITE_32}
          /\ (live /\ sdp_crypto_attrib(p) # NULL)
             => LineSuite(sdp_crypto_attrib(p)) \in {SUITE_80, SUITE_32})
    /\ [][ last'.op = "offer"
           => /\ p.suite = <<>> => p'.suite = SUITE_80
              /\ p.suite # <<>> => p'.suite = p.suite
              /\ LineSuite(sdp_crypto_attrib(p')) = p'.suite ]_vars

\* an offer written after an answer recorded the second suite names that suite
C20_Witness ==
    /\ last.op = "offer"
    /\ p.remote_key # ZeroKey
    /\ p.suite = SUITE_32
    /\ LineSuite(sdp_crypto_attrib(p)) = SUITE_32

=============================================================================
